---- MODULE Spec2Model ----
(***************************************************************************)
(* Park-and-ride booking core: the store (server/storage.ts) and the       *)
(* booking routes (server routes: POST/PATCH/DELETE /api/bookings).        *)
(*                                                                         *)
(* Every `await` of a route handler is a point where another request's     *)
(* handler may run, so a request is a small process: one action per        *)
(* awaited store call.  Times are abstract instants 0..MaxTime; money is   *)
(* kept in tenths (a fee of 1.5 is 15).                                    *)
(*                                                                         *)
(* insertParkingBookingSchema is built by drizzle-zod, outside this code:  *)
(* whether its parse accepts a body is drawn freely (accepted, or rejected *)
(* with a ZodError).                                                       *)
(***************************************************************************)
EXTENDS Integers, Sequences, FiniteSets, TLC

\* ------------------------------------------------------------------ bounds
MaxBookings == 2
MaxTime == 3
NumSpots == 2
MaxRequests == 3
MaxSeqRequests == 4
MaxMinutes == 121
MaxStoreRows == 2
MaxStoreSpots == 1
MaxItems == 2
MaxQueued == 3
MaxCalls == 2

\* ------------------------------------------------------- program constants
BookingFee == 15
DemoHourlyRate == 50
MinutesPerHour == 60

\* ---------------------------------------------------------------- domains
Times == 0..MaxTime
SpotIds == 1..NumSpots
BookingIds == 1..MaxBookings
Users == {1, 2}
NoSession == 0
Sessions == Users \cup {NoSession}
\* location 1 is provisioned; identifier 2 resolves to no stored location
LocationIds == {1}
RequestLocationIds == {1, 2}
VehicleIds == {1}
Backends == {"mem", "db"}
\* export const storage = new DatabaseStorage()
storage == "db"
Reqs == 1..2
\* durations of a fare quote in minutes, and the hourly rates of the
\* provisioned locations (5, 4.5 and 6) in tenths
Durations == (0 - MaxMinutes)..MaxMinutes
Rates == {45, 50, 60}
\* the two quotes a comparison of fares sets side by side
QuoteSlots == 1..2

\* the time windows a client sends: unit windows and the
\* two malformed shapes (empty and reversed)
Intervals ==
  {<<s, e>> \in Times \X Times : e - s = 1} \cup {<<1, 1>>, <<2, 1>>}

\* bodies of PATCH /api/bookings/:id (req.body is passed to the store as is)
PatchBodies ==
  {[startTime |-> i[1], endTime |-> i[2]] : i \in {<<1, 2>>, <<2, 1>>}}
    \cup {[status |-> s] : s \in {"pending", "confirmed", "completed", "in_progress"}}
    \cup {[spotId |-> s] : s \in SpotIds}

VARIABLES spots, bookings, nextBookingId, started, req, response, quotes,
          mem, db, assigned, last, dialog, offline, wizard

\* the state of the browser's components
clientVars == <<dialog, offline, wizard>>

\* the state of the server and of the stores
serverVars ==
  <<spots, bookings, nextBookingId, started, req, response, quotes,
    mem, db, assigned, last>>

vars == <<spots, bookings, nextBookingId, started, req, response, quotes,
          mem, db, assigned, last, clientVars>>

\* ---------------------------------------------------------- pure helpers
\* { ...existing, ...update } / db.update(...).set(update)
Merge(existing, update) ==
  [f \in DOMAIN existing \cup DOMAIN update |->
     IF f \in DOMAIN update THEN update[f] ELSE existing[f]]

hourlyRate(locationId) == DemoHourlyRate

\* Math.floor of n / d for d > 0
FloorDiv(n, d) == n \div d

\* Math.floor in place of Math.ceil
hoursOf_Floor(minutes) == FloorDiv(minutes, MinutesPerHour)

\* Math.ceil(milliseconds / (1000 * 60 * 60)) of a whole number of minutes
hoursOf(minutes) == 0 - FloorDiv(0 - minutes, MinutesPerHour)

\* (hours * location.hourlyRate) + 1.5, in tenths
computeFare(minutes, rate) == hoursOf(minutes) * rate + BookingFee

\* the instants of the booking routes are whole hours
Hours(startTime, endTime) == hoursOf((endTime - startTime) * MinutesPerHour)

totalAmountOf(locationId, startTime, endTime) ==
  computeFare((endTime - startTime) * MinutesPerHour, hourlyRate(locationId))

\* the status filter of each backing store's resolver
IsActiveFor(b, status) ==
  IF b = "mem"
    THEN status # "canceled" /\ status # "completed"
    ELSE status = "pending" \/ status = "confirmed"

\* booking overlaps the requested window (closed comparison on both ends)
Overlaps(bk, startTime, endTime) ==
  bk.startTime <= endTime /\ bk.endTime >= startTime

StoredBookings == {bookings[i] : i \in DOMAIN bookings}

\* the spot ids that an unfinished or finished resolver run rules out
bookedSpotIds(b, bks, locationId, startTime, endTime) ==
  {bk.spotId : bk \in {x \in bks :
      /\ x.locationId = locationId
      /\ IsActiveFor(b, x.status)
      /\ Overlaps(x, startTime, endTime)}}

\* getAvailableParkingSpots of store b on given spot and booking tables, as
\* the set of spot ids it returns
AvailableOn(b, spotTable, bks, locationId, startTime, endTime) ==
  {s \in DOMAIN spotTable : spotTable[s].locationId = locationId
                            /\ spotTable[s].isAvailable = TRUE}
    \ bookedSpotIds(b, bks, locationId, startTime, endTime)

RECURSIVE SortedSeq(_)
SortedSeq(S) ==
  IF S = {} THEN <<>>
  ELSE LET m == CHOOSE x \in S : \A y \in S : x <= y
       IN  <<m>> \o SortedSeq(S \ {m})

Range(s) == {s[i] : i \in DOMAIN s}

Orderings(S) ==
  {s \in [1..Cardinality(S) -> S] : Range(s) = S}

\* rows of "spots where locationId = l": Map insertion order in memory, an
\* unordered SELECT in the database
SpotRowOrders(b, S) ==
  IF b = "mem" THEN {SortedSeq(S)} ELSE Orderings(S)

FilterSeq(s, keep) ==
  LET F[i \in 0..Len(s)] ==
        IF i = 0 THEN <<>>
        ELSE IF s[i] \in keep THEN Append(F[i - 1], s[i]) ELSE F[i - 1]
  IN  F[Len(s)]

\* ------------------------------------------------ the two backing stores
\* MemStorage and DatabaseStorage side by side, each taking the same calls.
\* A Map is a function from its keys, a table the set of its rows.
StoreIds == 1..MaxStoreRows

\* JSON null in a numeric column; identifiers start at 1
NullId == 0

\* is_available: boolean("is_available") is nullable
NullFlag == "null"

FlagValues == {"true", "false"}

\* spot => spot.isAvailable as a filter predicate
Truthy(flag) == flag = "true"

\* Map.set(k, v)
Put(map, k, v) ==
  [x \in DOMAIN map \cup {k} |-> IF x = k THEN v ELSE map[x]]

\* the values of a Map
Values(map) == {map[k] : k \in DOMAIN map}

EmptyMem ==
  [parkingBookings |-> <<>>, currentBookingIds |-> 1,
   parkingSpots |-> <<>>, currentSpotIds |-> 1, vehicles |-> {1}]

EmptyDb ==
  [parkingBookings |-> {}, bookingSeq |-> 1,
   parkingSpots |-> {}, spotSeq |-> 1, vehicles |-> {1}]

\* what a store call resolves to (rows) or rejects with (error)
Ok(rows) == [error |-> "none", rows |-> rows]

Fail(error) == [error |-> error, rows |-> {}]

NoCall == [op |-> "none", args |-> <<>>, mem |-> Ok({}), db |-> Ok({})]

\* InsertParkingBooking values: status is optional
InsertBookings ==
  {[userId |-> 1, spotId |-> 1, locationId |-> 1, startTime |-> 0, endTime |-> 1]}
    \cup {[userId |-> 1, spotId |-> 1, locationId |-> 1, startTime |-> 0,
           endTime |-> 1, status |-> st] : st \in {"confirmed", "in_progress"}}

\* Partial<ParkingBooking> values as PATCH /api/bookings/:id passes them on
BookingUpdates ==
  {[status |-> "canceled"]}
    \cup {[id |-> i] : i \in StoreIds}
    \cup {[spotId |-> NullId]}

\* InsertParkingSpot values: isAvailable is optional
InsertSpots ==
  {[locationId |-> 1]} \cup {[locationId |-> 1, isAvailable |-> "false"]}

\* ------------------------------------------------ ParkingBookingModal
\* a <SelectItem value="HH:00">: the hour and the minute of the option
StartOptions == {<<h, 0>> : h \in 9..14}

EndOptions == {<<h, 0>> : h \in 12..17}

\* parseInt(value.split(':')[0])
HourOf(value) == value[1]

\* value.split(':').map(Number)
HourMinute(value) == <<value[1], value[2]>>

\* what the dialog shows and what the server answered to its last request
InitialDialog ==
  [startTime |-> <<11, 0>>, endTime |-> <<15, 0>>, hourlyRate |-> DemoHourlyRate,
   posted |-> <<>>]

\* ------------------------------------------------- useOfflineStorage
ItemIds == 1..MaxItems

\* an entry of pendingSync: the item and, for updateItem and removeItem, the
\* action it carries; n numbers the entries in the order they were queued
Entry(n, id, action) == [n |-> n, id |-> id, action |-> action]

\* useState([]) twice and useState(navigator.onLine), nothing in localStorage,
\* mounted with a connection (handleOffline leads to the other start);
\* calls are the syncFunction calls in flight, each with the array it was
\* given, synced the entries given to a call that resolved
InitialOffline ==
  [items |-> {}, pendingSync |-> <<>>, isOnline |-> TRUE,
   calls |-> <<>>, synced |-> {}, queued |-> 0]

\* ------------------------------------------------ TransportBookingModal
\* the destinations of the search list, and the untouched field
Destinations == {"Airport Terminal 1", "Conference Center"}

NoDestination == ""

\* values of <Input type="time">: empty or a time of day
ScheduleTimes == {"", "09:30"}

\* the useState initial values, the dialog closed; sent holds the body of the
\* last POST /api/transportation/bookings
ResetForm(w) ==
  [w EXCEPT !.dropoffLocation = NoDestination, !.isNow = TRUE,
            !.scheduleTime = "", !.bookingStep = 1]

InitialWizard ==
  [open |-> FALSE, bookingStep |-> 1, dropoffLocation |-> NoDestination,
   isNow |-> TRUE, scheduleTime |-> "", sent |-> <<>>]

InitClient ==
  /\ dialog = InitialDialog
  /\ offline = InitialOffline
  /\ wizard = InitialWizard

\* ------------------------------------------------------------------ state
\* A request is drawn piecewise: the session and the :id parameter when it
\* arrives, each field of req.body at the step of the handler that first
\* reads it.  `response` is the response the last step sent, if it sent one,
\* with the handler's locals at that point.
IdleReq ==
  [kind |-> "none", pc |-> "idle", user |-> 0, locationId |-> 0,
   vehicleId |-> 0, startTime |-> 0, endTime |-> 0, bookingId |-> 0,
   availableSpots |-> <<>>, spotId |-> 0, status |-> "none",
   totalAmount |-> 0, newId |-> 0]

NoResponse == [outcome |-> "none", threw |-> "none", request |-> IdleReq]

\* The database as the server finds it.  The spots table carries no foreign
\* key: spot 2 belongs to location 1 or to an identifier no location has.
Init ==
  /\ spots \in [SpotIds -> [locationId : RequestLocationIds, isAvailable : {TRUE}]]
  /\ spots[1].locationId = 1
  /\ bookings = <<>>
  /\ nextBookingId = 1
  /\ started = 0
  /\ req = [r \in Reqs |-> IdleReq]
  /\ response = NoResponse
  /\ quotes = {}
  /\ mem = EmptyMem
  /\ db = EmptyDb
  /\ assigned = [mem |-> <<>>, db |-> <<>>]
  /\ last = NoCall
  /\ InitClient

Free(r) == req[r].pc = "idle"

\* an arriving request is served in the first slot that is not in use
FirstFree(r) ==
  /\ Free(r)
  /\ \A q \in Reqs : q < r => ~Free(q)

\* res.status(...).json(...) / .end(): the handler is over
Respond(r, outcome) ==
  /\ req' = [req EXCEPT ![r] = IdleReq]
  /\ response' = [outcome |-> outcome, threw |-> "none", request |-> req[r]]

\* an awaited store call rejects: the handler's catch block answers 500
Throw(r, call) ==
  /\ req' = [req EXCEPT ![r] = IdleReq]
  /\ response' = [outcome |-> "ServerError", threw |-> call, request |-> req[r]]

Continue(r, next) ==
  /\ req' = next
  /\ response' = NoResponse

CreatesInFlight ==
  Cardinality({r \in Reqs : req[r].kind = "create" /\ ~Free(r)})

\* ----------------------------------------- request arrival, authMiddleware
\* The users table only grows, so the middleware's getUser is taken together
\* with the arrival of the request.  `budget` caps the requests of a run.
authMiddleware(r, kind, bookingId, budget) ==
  /\ FirstFree(r)
  /\ started < budget
  /\ started' = started + 1
  /\ \E session \in Sessions :
       IF session \notin Users
         THEN /\ response' = [outcome |-> "Unauthorized", threw |-> "none",
                               request |-> [IdleReq EXCEPT !.kind = kind]]
              /\ UNCHANGED req
         ELSE Continue(r, [req EXCEPT ![r] =
                [IdleReq EXCEPT !.kind = kind, !.user = session,
                                !.bookingId = bookingId,
                                !.pc = IF kind = "create" THEN "getSpots"
                                       ELSE "getBooking"]])
  /\ UNCHANGED <<spots, bookings, nextBookingId, quotes, mem, db, assigned, last, clientVars>>

StartCreate(r, budget) ==
  /\ nextBookingId - 1 + CreatesInFlight < MaxBookings
  /\ authMiddleware(r, "create", 0, budget)

StartCancel(r, budget) ==
  \E b \in BookingIds : authMiddleware(r, "cancel", b, budget)

StartModify(r, budget) ==
  \E b \in BookingIds : authMiddleware(r, "modify", b, budget)

\* ------------------------------------------------------ POST /api/bookings
\* FlaggedAvailable without the isAvailable filter
FlaggedAvailable_AllSpots(locationId) ==
  {s \in SpotIds : spots[s].locationId = locationId}

\* getParkingSpotsByLocationId followed by the isAvailable filter
FlaggedAvailable(locationId) ==
  {s \in SpotIds : spots[s].locationId = locationId /\ spots[s].isAvailable = TRUE}

\* getAvailableParkingSpots, first await: the location's spots, flag-filtered
GetSpots(r) ==
  /\ req[r].pc = "getSpots"
  /\ \/ \E l \in RequestLocationIds, i \in Intervals :
          \E rows \in SpotRowOrders(storage, FlaggedAvailable(l)) :
            Continue(r, [req EXCEPT ![r].pc = "getBookings", ![r].locationId = l,
                                    ![r].startTime = i[1], ![r].endTime = i[2],
                                    ![r].availableSpots = rows])
     \/ Throw(r, "getAvailableParkingSpots")
  /\ UNCHANGED <<spots, bookings, nextBookingId, started, quotes, mem, db, assigned, last, clientVars>>

\* getAvailableParkingSpots, second part: drop spots with a conflicting booking
ResolvedSpots(rows, locationId, startTime, endTime) ==
  FilterSeq(rows,
            Range(rows) \ bookedSpotIds(storage, StoredBookings, locationId,
                                        startTime, endTime))

Resolved(r) ==
  ResolvedSpots(req[r].availableSpots, req[r].locationId, req[r].startTime,
                req[r].endTime)

\* GetBookings with the location looked up before the empty-result check
GetBookings_LocationFirst(r) ==
  /\ req[r].pc = "getBookings"
  /\ \/ Throw(r, "getAvailableParkingSpots")
     \/ Throw(r, "getParkingLocationById")
     \/ /\ req[r].locationId \notin LocationIds
        /\ Respond(r, "LocationNotFound")
     \/ /\ req[r].locationId \in LocationIds
        /\ Len(Resolved(r)) = 0
        /\ Respond(r, "NoAvailability")
     \/ /\ req[r].locationId \in LocationIds
        /\ Len(Resolved(r)) # 0
        /\ \E v \in VehicleIds, accepted \in BOOLEAN :
             IF ~accepted
               THEN Respond(r, "InvalidData")
               ELSE Continue(r, [req EXCEPT
                      ![r].pc = "insert",
                      ![r].vehicleId = v,
                      ![r].availableSpots = Resolved(r),
                      ![r].totalAmount =
                        totalAmountOf(req[r].locationId, req[r].startTime,
                                      req[r].endTime)])
  /\ UNCHANGED <<spots, bookings, nextBookingId, started, quotes, mem, db, assigned, last, clientVars>>

\* GetBookings without the check of getParkingLocationById's result
GetBookings_NoLocationCheck(r) ==
  /\ req[r].pc = "getBookings"
  /\ \/ Throw(r, "getAvailableParkingSpots")
     \/ /\ Len(Resolved(r)) = 0
        /\ Respond(r, "NoAvailability")
     \/ /\ Len(Resolved(r)) # 0
        /\ \/ Throw(r, "getParkingLocationById")
           \/ \E v \in VehicleIds, accepted \in BOOLEAN :
                IF ~accepted
                  THEN Respond(r, "InvalidData")
                  ELSE Continue(r, [req EXCEPT
                         ![r].pc = "insert",
                         ![r].vehicleId = v,
                         ![r].availableSpots = Resolved(r),
                         ![r].totalAmount =
                           totalAmountOf(req[r].locationId, req[r].startTime,
                                         req[r].endTime)])
  /\ UNCHANGED <<spots, bookings, nextBookingId, started, quotes, mem, db, assigned, last, clientVars>>

\* The rest of the handler up to the insert: the empty-result check, then
\* getParkingLocationById (locations never change, so its await is taken
\* together with this step), the fare and insertParkingBookingSchema.parse
GetBookings(r) ==
  /\ req[r].pc = "getBookings"
  /\ \/ Throw(r, "getAvailableParkingSpots")
     \/ /\ Len(Resolved(r)) = 0
        /\ Respond(r, "NoAvailability")
     \/ /\ Len(Resolved(r)) # 0
        /\ \/ Throw(r, "getParkingLocationById")
           \/ /\ req[r].locationId \notin LocationIds
              /\ Respond(r, "LocationNotFound")
           \/ /\ req[r].locationId \in LocationIds
              /\ \E v \in VehicleIds, accepted \in BOOLEAN :
                   IF ~accepted
                     THEN Respond(r, "InvalidData")
                     ELSE Continue(r, [req EXCEPT
                            ![r].pc = "insert",
                            ![r].vehicleId = v,
                            ![r].availableSpots = Resolved(r),
                            ![r].totalAmount =
                              totalAmountOf(req[r].locationId, req[r].startTime,
                                            req[r].endTime)])
  /\ UNCHANGED <<spots, bookings, nextBookingId, started, quotes, mem, db, assigned, last, clientVars>>

\* NewBooking with the status column's default instead of "confirmed"
NewBooking_Pending(r) ==
  [id |-> nextBookingId, userId |-> req[r].user, vehicleId |-> req[r].vehicleId,
   spotId |-> req[r].availableSpots[1], locationId |-> req[r].locationId,
   startTime |-> req[r].startTime, endTime |-> req[r].endTime,
   status |-> "pending", totalAmount |-> req[r].totalAmount]

\* NewBooking with the owner taken from the request body
NewBooking_BodyUser(r) ==
  [id |-> nextBookingId, userId |-> CHOOSE u \in Users : u # req[r].user,
   vehicleId |-> req[r].vehicleId,
   spotId |-> req[r].availableSpots[1], locationId |-> req[r].locationId,
   startTime |-> req[r].startTime, endTime |-> req[r].endTime,
   status |-> "confirmed", totalAmount |-> req[r].totalAmount]

NewBooking(r) ==
  [id |-> nextBookingId, userId |-> req[r].user, vehicleId |-> req[r].vehicleId,
   spotId |-> req[r].availableSpots[1], locationId |-> req[r].locationId,
   startTime |-> req[r].startTime, endTime |-> req[r].endTime,
   status |-> "confirmed", totalAmount |-> req[r].totalAmount]

\* createParkingBooking
InsertBooking(r) ==
  /\ req[r].pc = "insert"
  /\ \/ /\ bookings' = Append(bookings, NewBooking(r))
        /\ nextBookingId' = nextBookingId + 1
        /\ Continue(r, [req EXCEPT ![r].pc = "flip", ![r].newId = nextBookingId])
     \/ /\ Throw(r, "createParkingBooking")
        /\ UNCHANGED <<bookings, nextBookingId>>
  /\ UNCHANGED <<spots, started, quotes, mem, db, assigned, last, clientVars>>

\* updateParkingSpotAvailability(availableSpots[0].id, false)
FlipSpot(r) ==
  /\ req[r].pc = "flip"
  /\ \/ /\ spots' = [spots EXCEPT ![req[r].availableSpots[1]].isAvailable = FALSE]
        /\ Respond(r, "Created")
     \/ /\ Throw(r, "updateParkingSpotAvailability")
        /\ UNCHANGED spots
  /\ UNCHANGED <<bookings, nextBookingId, started, quotes, mem, db, assigned, last, clientVars>>

\* GetBooking with the ownership check on the PATCH route only
GetBooking_OwnerCheckOnModify(r) ==
  /\ req[r].pc = "getBooking"
  /\ \/ Throw(r, "getParkingBookingById")
     \/ LET b == req[r].bookingId
        IN  IF b \notin DOMAIN bookings
              THEN Respond(r, "NotFound")
            ELSE IF req[r].kind = "modify" /\ bookings[b].userId # req[r].user
              THEN Respond(r, "Forbidden")
            ELSE Continue(r, [req EXCEPT ![r].pc = IF req[r].kind = "cancel"
                                                      THEN "setStatus" ELSE "update",
                                         ![r].spotId = bookings[b].spotId,
                                         ![r].status = bookings[b].status])
  /\ UNCHANGED <<spots, bookings, nextBookingId, started, quotes, mem, db, assigned, last, clientVars>>

\* GetBooking with the ownership check on the DELETE route only
GetBooking_OwnerCheckOnCancel(r) ==
  /\ req[r].pc = "getBooking"
  /\ \/ Throw(r, "getParkingBookingById")
     \/ LET b == req[r].bookingId
        IN  IF b \notin DOMAIN bookings
              THEN Respond(r, "NotFound")
            ELSE IF req[r].kind = "cancel" /\ bookings[b].userId # req[r].user
              THEN Respond(r, "Forbidden")
            ELSE Continue(r, [req EXCEPT ![r].pc = IF req[r].kind = "cancel"
                                                      THEN "setStatus" ELSE "update",
                                         ![r].spotId = bookings[b].spotId,
                                         ![r].status = bookings[b].status])
  /\ UNCHANGED <<spots, bookings, nextBookingId, started, quotes, mem, db, assigned, last, clientVars>>

\* -------------------------------- PATCH and DELETE /api/bookings/:id, shared
\* getParkingBookingById and the ownership check; spotId and status are the
\* fields of the fetched row that the claims speak of
GetBooking(r) ==
  /\ req[r].pc = "getBooking"
  /\ \/ Throw(r, "getParkingBookingById")
     \/ LET b == req[r].bookingId
        IN  IF b \notin DOMAIN bookings
              THEN Respond(r, "NotFound")
            ELSE IF bookings[b].userId # req[r].user
              THEN Respond(r, "Forbidden")
            ELSE Continue(r, [req EXCEPT ![r].pc = IF req[r].kind = "cancel"
                                                      THEN "setStatus" ELSE "update",
                                         ![r].spotId = bookings[b].spotId,
                                         ![r].status = bookings[b].status])
  /\ UNCHANGED <<spots, bookings, nextBookingId, started, quotes, mem, db, assigned, last, clientVars>>

\* --------------------------------------------------- DELETE /api/bookings/:id
\* updateParkingBooking(bookingId, { status: "canceled" })
SetCanceled(r) ==
  /\ req[r].pc = "setStatus"
  /\ \/ /\ bookings' = [bookings EXCEPT ![req[r].bookingId] =
                                           Merge(@, [status |-> "canceled"])]
        /\ Continue(r, [req EXCEPT ![r].pc = "release"])
     \/ /\ Throw(r, "updateParkingBooking")
        /\ UNCHANGED bookings
  /\ UNCHANGED <<spots, nextBookingId, started, quotes, mem, db, assigned, last, clientVars>>

\* ReleaseSpot that leaves the flag alone while another active booking
\* references the spot
ReleaseSpot_UnlessStillBooked(r) ==
  /\ req[r].pc = "release"
  /\ \/ /\ req[r].spotId \in DOMAIN spots
        /\ spots' = IF \E bk \in StoredBookings :
                         /\ bk.spotId = req[r].spotId
                         /\ bk.status \in {"pending", "confirmed"}
                      THEN spots
                      ELSE [spots EXCEPT ![req[r].spotId].isAvailable = TRUE]
        /\ Respond(r, "NoContent")
     \/ /\ Throw(r, "updateParkingSpotAvailability")
        /\ UNCHANGED spots
  /\ UNCHANGED <<bookings, nextBookingId, started, quotes, mem, db, assigned, last, clientVars>>

\* ReleaseSpot that answers 204 without the flag update
ReleaseSpot_NoRelease(r) ==
  /\ req[r].pc = "release"
  /\ \/ /\ req[r].spotId \in DOMAIN spots
        /\ spots' = spots
        /\ Respond(r, "NoContent")
     \/ /\ Throw(r, "updateParkingSpotAvailability")
        /\ UNCHANGED spots
  /\ UNCHANGED <<bookings, nextBookingId, started, quotes, mem, db, assigned, last, clientVars>>

\* updateParkingSpotAvailability(booking.spotId, true), with the spotId read
\* by getParkingBookingById
ReleaseSpot(r) ==
  /\ req[r].pc = "release"
  /\ \/ /\ req[r].spotId \in DOMAIN spots
        /\ spots' = [spots EXCEPT ![req[r].spotId].isAvailable = TRUE]
        /\ Respond(r, "NoContent")
     \/ /\ Throw(r, "updateParkingSpotAvailability")
        /\ UNCHANGED spots
  /\ UNCHANGED <<bookings, nextBookingId, started, quotes, mem, db, assigned, last, clientVars>>

\* UpdateBooking that refuses a body which makes the booking overlap another
\* pending or confirmed booking of the same spot
UpdateBooking_Rechecked(r) ==
  /\ req[r].pc = "update"
  /\ \/ \E body \in PatchBodies :
          LET new == Merge(bookings[req[r].bookingId], body)
          IN  IF \E b \in DOMAIN bookings :
                   /\ b # req[r].bookingId
                   /\ bookings[b].spotId = new.spotId
                   /\ bookings[b].status \in {"pending", "confirmed"}
                   /\ new.status \in {"pending", "confirmed"}
                   /\ bookings[b].startTime < new.endTime
                   /\ new.startTime < bookings[b].endTime
                THEN /\ Respond(r, "Conflict")
                     /\ UNCHANGED bookings
                ELSE /\ bookings' = [bookings EXCEPT ![req[r].bookingId] = new]
                     /\ Respond(r, "OK")
     \/ /\ Throw(r, "updateParkingBooking")
        /\ UNCHANGED bookings
  /\ UNCHANGED <<spots, nextBookingId, started, quotes, mem, db, assigned, last, clientVars>>

\* ---------------------------------------------------- PATCH /api/bookings/:id
\* updateParkingBooking(bookingId, req.body)
UpdateBooking(r) ==
  /\ req[r].pc = "update"
  /\ \/ /\ \E body \in PatchBodies :
             bookings' = [bookings EXCEPT ![req[r].bookingId] = Merge(@, body)]
        /\ Respond(r, "OK")
     \/ /\ Throw(r, "updateParkingBooking")
        /\ UNCHANGED bookings
  /\ UNCHANGED <<spots, nextBookingId, started, quotes, mem, db, assigned, last, clientVars>>

\* ------------------------------------------------------------- behaviours
Step(r, budget) ==
  \/ StartCreate(r, budget)
  \/ StartCancel(r, budget)
  \/ StartModify(r, budget)
  \/ GetSpots(r)
  \/ GetBookings(r)
  \/ InsertBooking(r)
  \/ FlipSpot(r)
  \/ GetBooking(r)
  \/ SetCanceled(r)
  \/ ReleaseSpot(r)
  \/ UpdateBooking(r)

\* up to two requests in flight at a time
Next == \E r \in Reqs : Step(r, MaxRequests)

Spec == Init /\ [][Next]_vars

\* one request at a time, a longer run
NextSeq == Step(1, MaxSeqRequests)

SpecSeq == Init /\ [][NextSeq]_vars

\* create and cancel requests only, up to two in flight at a time
NextCreateCancel ==
  \E r \in Reqs :
    \/ StartCreate(r, MaxRequests)
    \/ StartCancel(r, MaxRequests)
    \/ GetSpots(r)
    \/ GetBookings(r)
    \/ InsertBooking(r)
    \/ FlipSpot(r)
    \/ GetBooking(r)
    \/ SetCanceled(r)
    \/ ReleaseSpot(r)

SpecCreateCancel == Init /\ [][NextCreateCancel]_vars

\* The database as initializeDemoData leaves it, with two of location 1's
\* spots kept: "B2" is booked under spot id 2 and the second location's id,
\* and spot 2 is flagged taken.
InitDemo ==
  /\ spots = [s \in SpotIds |-> [locationId |-> 1, isAvailable |-> s # 2]]
  /\ bookings = <<[id |-> 1, userId |-> 1, vehicleId |-> 1, spotId |-> 2,
                   locationId |-> 2, startTime |-> 0, endTime |-> 3,
                   status |-> "confirmed", totalAmount |-> 135]>>
  /\ nextBookingId = 2
  /\ started = 0
  /\ req = [r \in Reqs |-> IdleReq]
  /\ response = NoResponse
  /\ quotes = {}
  /\ mem = EmptyMem
  /\ db = EmptyDb
  /\ assigned = [mem |-> <<>>, db |-> <<>>]
  /\ last = NoCall
  /\ InitClient

SpecDemo == InitDemo /\ [][NextSeq]_vars

\* the fare computation of POST /api/bookings on its own: a quote is the
\* total the handler computes for a duration and a location's rate
Quote ==
  /\ Cardinality(quotes) < Cardinality(QuoteSlots)
  /\ \E m \in Durations, rate \in Rates :
       quotes' = quotes \cup {[minutes |-> m, rate |-> rate,
                                total |-> computeFare(m, rate)]}
  /\ UNCHANGED <<spots, bookings, nextBookingId, started, req, response,
                 mem, db, assigned, last, clientVars>>

\* the store plays no part in a quote: one layout of the spots is enough
InitFare ==
  /\ Init
  /\ \A s \in SpotIds : spots[s].locationId \in LocationIds

SpecFare == InitFare /\ [][Quote]_vars

getAvailableParkingSpots(b, locationId, startTime, endTime) ==
  AvailableOn(b, spots, StoredBookings, locationId, startTime, endTime)

TypeOK ==
  /\ nextBookingId \in 1..(MaxBookings + 1)
  /\ Len(bookings) = nextBookingId - 1

\* ------------------------------------------- the store calls, both stores
OrPending(insertBooking) ==
  IF "status" \in DOMAIN insertBooking THEN insertBooking.status ELSE "pending"

\* MemStorage.createParkingBooking with the counter read but not advanced
MemStorage_createParkingBooking_NoIncrement(m, insertBooking) ==
  LET id == m.currentBookingIds
      booking == Merge(insertBooking,
                       [id |-> id, status |-> OrPending(insertBooking)])
  IN  [store |-> [m EXCEPT !.parkingBookings = Put(@, id, booking)],
       result |-> Ok({booking})]

MemStorage_createParkingBooking(m, insertBooking) ==
  LET id == m.currentBookingIds
      booking == Merge(insertBooking,
                       [id |-> id, status |-> OrPending(insertBooking)])
  IN  [store |-> [m EXCEPT !.parkingBookings = Put(@, id, booking),
                           !.currentBookingIds = id + 1],
       result |-> Ok({booking})]

\* the serial column draws the next value of its sequence whether or not the
\* INSERT succeeds; the primary key rejects a value some row already has
DatabaseStorage_createParkingBooking(d, insertBooking) ==
  LET id == d.bookingSeq
      booking == Merge(insertBooking,
                       [id |-> id, status |-> OrPending(insertBooking)])
  IN  IF \E row \in d.parkingBookings : row.id = id
        THEN [store |-> [d EXCEPT !.bookingSeq = id + 1],
              result |-> Fail("UniqueViolation")]
        ELSE [store |-> [d EXCEPT !.parkingBookings = @ \cup {booking},
                                  !.bookingSeq = id + 1],
              result |-> Ok({booking})]

MemStorage_getParkingBookingById(m, id) ==
  [store |-> m,
   result |-> IF id \in DOMAIN m.parkingBookings
                THEN Ok({m.parkingBookings[id]}) ELSE Ok({})]

DatabaseStorage_getParkingBookingById(d, id) ==
  [store |-> d, result |-> Ok({row \in d.parkingBookings : row.id = id})]

\* MemStorage.updateParkingBooking that sets the key whether or not it exists
MemStorage_updateParkingBooking_Upsert(m, id, bookingUpdate) ==
  LET updatedBooking ==
        IF id \in DOMAIN m.parkingBookings
          THEN Merge(m.parkingBookings[id], bookingUpdate)
          ELSE bookingUpdate
  IN  [store |-> [m EXCEPT !.parkingBookings = Put(@, id, updatedBooking)],
       result |-> Ok({updatedBooking})]

MemStorage_updateParkingBooking(m, id, bookingUpdate) ==
  IF id \notin DOMAIN m.parkingBookings
    THEN [store |-> m, result |-> Fail("NotFound")]
    ELSE LET updatedBooking == Merge(m.parkingBookings[id], bookingUpdate)
         IN  [store |-> [m EXCEPT !.parkingBookings = Put(@, id, updatedBooking)],
              result |-> Ok({updatedBooking})]

\* UPDATE ... SET <bookingUpdate> WHERE id = $1 RETURNING *: the columns are
\* NOT NULL and id is the primary key
DatabaseStorage_updateParkingBooking(d, id, bookingUpdate) ==
  LET hit == {row \in d.parkingBookings : row.id = id}
      updated == {Merge(row, bookingUpdate) : row \in hit}
  IN  IF hit = {}
        THEN [store |-> d, result |-> Fail("NotFound")]
      ELSE IF "spotId" \in DOMAIN bookingUpdate /\ bookingUpdate.spotId = NullId
        THEN [store |-> d, result |-> Fail("NotNullViolation")]
      ELSE IF /\ "id" \in DOMAIN bookingUpdate
              /\ \E row \in d.parkingBookings \ hit : row.id = bookingUpdate.id
        THEN [store |-> d, result |-> Fail("UniqueViolation")]
      ELSE [store |-> [d EXCEPT !.parkingBookings = (@ \ hit) \cup updated],
            result |-> Ok(updated)]

MemStorage_createParkingSpot(m, insertSpot) ==
  LET id == m.currentSpotIds
      spot == Merge(insertSpot,
                [id |-> id,
                 isAvailable |-> IF "isAvailable" \in DOMAIN insertSpot
                                   THEN insertSpot.isAvailable ELSE NullFlag])
  IN  [store |-> [m EXCEPT !.parkingSpots = Put(@, id, spot),
                           !.currentSpotIds = id + 1],
       result |-> Ok({spot})]

\* the column default applies when the insert names no value
DatabaseStorage_createParkingSpot(d, insertSpot) ==
  LET id == d.spotSeq
      spot == Merge(insertSpot,
                [id |-> id,
                 isAvailable |-> IF "isAvailable" \in DOMAIN insertSpot
                                   THEN insertSpot.isAvailable ELSE "true"])
  IN  [store |-> [d EXCEPT !.parkingSpots = @ \cup {spot}, !.spotSeq = id + 1],
       result |-> Ok({spot})]

MemStorage_updateParkingSpotAvailability(m, id, isAvailable) ==
  IF id \notin DOMAIN m.parkingSpots
    THEN [store |-> m, result |-> Fail("NotFound")]
    ELSE LET updatedSpot == [m.parkingSpots[id] EXCEPT !.isAvailable = isAvailable]
         IN  [store |-> [m EXCEPT !.parkingSpots = Put(@, id, updatedSpot)],
              result |-> Ok({updatedSpot})]

DatabaseStorage_updateParkingSpotAvailability(d, id, isAvailable) ==
  LET hit == {row \in d.parkingSpots : row.id = id}
      updated == {[row EXCEPT !.isAvailable = isAvailable] : row \in hit}
  IN  IF hit = {}
        THEN [store |-> d, result |-> Fail("NotFound")]
        ELSE [store |-> [d EXCEPT !.parkingSpots = (@ \ hit) \cup updated],
              result |-> Ok(updated)]

\* the resolver of store b on its spot rows and booking rows
availableSpotsOf(b, spotRows, bookingRows, locationId, startTime, endTime) ==
  {spot \in spotRows :
     /\ spot.locationId = locationId
     /\ Truthy(spot.isAvailable)
     /\ spot.id \notin bookedSpotIds(b, bookingRows, locationId, startTime, endTime)}

MemStorage_getAvailableParkingSpots(m, locationId, startTime, endTime) ==
  [store |-> m,
   result |-> Ok(availableSpotsOf("mem", Values(m.parkingSpots),
                                  Values(m.parkingBookings),
                                  locationId, startTime, endTime))]

DatabaseStorage_getAvailableParkingSpots(d, locationId, startTime, endTime) ==
  [store |-> d,
   result |-> Ok(availableSpotsOf("db", d.parkingSpots, d.parkingBookings,
                                  locationId, startTime, endTime))]

MemStorage_deleteVehicle(m, id) ==
  IF id \notin m.vehicles
    THEN [store |-> m, result |-> Fail("NotFound")]
    ELSE [store |-> [m EXCEPT !.vehicles = @ \ {id}], result |-> Ok({})]

DatabaseStorage_deleteVehicle(d, id) ==
  [store |-> [d EXCEPT !.vehicles = @ \ {id}], result |-> Ok({})]

\* the identifiers a create returned, oldest first
Assigned(ids, op, result) ==
  IF op = "createParkingBooking" /\ result.error = "none"
    THEN ids \o SortedSeq({row.id : row \in result.rows})
    ELSE ids

\* one call made on both stores
Call(op, args, onMem, onDb) ==
  /\ mem' = onMem.store
  /\ db' = onDb.store
  /\ last' = [op |-> op, args |-> args, mem |-> onMem.result, db |-> onDb.result]
  /\ assigned' = [mem |-> Assigned(assigned.mem, op, onMem.result),
                  db |-> Assigned(assigned.db, op, onDb.result)]
  /\ UNCHANGED <<spots, bookings, nextBookingId, started, req, response, quotes,
                 clientVars>>

createParkingBooking ==
  /\ mem.currentBookingIds <= MaxStoreRows
  /\ db.bookingSeq <= MaxStoreRows
  /\ \E insertBooking \in InsertBookings :
       Call("createParkingBooking", [insertBooking |-> insertBooking],
            MemStorage_createParkingBooking(mem, insertBooking),
            DatabaseStorage_createParkingBooking(db, insertBooking))

getParkingBookingById ==
  \E id \in StoreIds :
    Call("getParkingBookingById", [id |-> id],
         MemStorage_getParkingBookingById(mem, id),
         DatabaseStorage_getParkingBookingById(db, id))

updateParkingBooking ==
  \E id \in StoreIds, bookingUpdate \in BookingUpdates :
    Call("updateParkingBooking", [id |-> id, bookingUpdate |-> bookingUpdate],
         MemStorage_updateParkingBooking(mem, id, bookingUpdate),
         DatabaseStorage_updateParkingBooking(db, id, bookingUpdate))

createParkingSpot ==
  /\ mem.currentSpotIds <= MaxStoreSpots
  /\ \E insertSpot \in InsertSpots :
       Call("createParkingSpot", [insertSpot |-> insertSpot],
            MemStorage_createParkingSpot(mem, insertSpot),
            DatabaseStorage_createParkingSpot(db, insertSpot))

updateParkingSpotAvailability ==
  \E id \in StoreIds, isAvailable \in FlagValues :
    Call("updateParkingSpotAvailability", [id |-> id, isAvailable |-> isAvailable],
         MemStorage_updateParkingSpotAvailability(mem, id, isAvailable),
         DatabaseStorage_updateParkingSpotAvailability(db, id, isAvailable))

getAvailableParkingSpotsCall ==
  \E i \in {<<0, 1>>, <<2, 3>>} :
    Call("getAvailableParkingSpots",
         [locationId |-> 1, startTime |-> i[1], endTime |-> i[2]],
         MemStorage_getAvailableParkingSpots(mem, 1, i[1], i[2]),
         DatabaseStorage_getAvailableParkingSpots(db, 1, i[1], i[2]))

deleteVehicle ==
  \E id \in {1, 2} :
    Call("deleteVehicle", [id |-> id],
         MemStorage_deleteVehicle(mem, id),
         DatabaseStorage_deleteVehicle(db, id))

NextStore ==
  \/ createParkingBooking
  \/ getParkingBookingById
  \/ updateParkingBooking
  \/ createParkingSpot
  \/ updateParkingSpotAvailability
  \/ getAvailableParkingSpotsCall
  \/ deleteVehicle

SpecStore == InitFare /\ [][NextStore]_vars

\* ------------------------------------------- ParkingBookingModal, steps
calculateDuration(startTime, endTime) ==
  LET start == HourOf(startTime)
      end == HourOf(endTime)
  IN  IF end > start THEN end - start ELSE 0

\* parkingFee + bookingFee as the dialog renders it, in tenths
total(rate, startTime, endTime) ==
  rate * calculateDuration(startTime, endTime) + BookingFee

\* new Date(year, month - 1, day, hour, minute) of one day, as minutes
MinuteOfDay(value) ==
  HourMinute(value)[1] * MinutesPerHour + HourMinute(value)[2]

\* the totalAmount POST /api/bookings computes from the two ISO strings
postedTotalAmount(rate, startTime, endTime) ==
  computeFare(MinuteOfDay(endTime) - MinuteOfDay(startTime), rate)

\* the dialog is opened for a location
selectLocation ==
  /\ \E rate \in Rates : dialog' = [dialog EXCEPT !.hourlyRate = rate]
  /\ UNCHANGED <<serverVars, offline, wizard>>

setStartTime ==
  /\ \E value \in StartOptions : dialog' = [dialog EXCEPT !.startTime = value]
  /\ UNCHANGED <<serverVars, offline, wizard>>

setEndTime ==
  /\ \E value \in EndOptions : dialog' = [dialog EXCEPT !.endTime = value]
  /\ UNCHANGED <<serverVars, offline, wizard>>

\* "Confirm Booking" with a vehicle selected, answered 201: the total on
\* screen at the click and the totalAmount of the booking the server stored
handleConfirmBooking ==
  /\ dialog' = [dialog EXCEPT !.posted =
       <<[shown |-> total(dialog.hourlyRate, dialog.startTime, dialog.endTime),
          totalAmount |-> postedTotalAmount(dialog.hourlyRate, dialog.startTime,
                                            dialog.endTime)]>>]
  /\ UNCHANGED <<serverVars, offline, wizard>>

NextDialog ==
  \/ selectLocation
  \/ setStartTime
  \/ setEndTime
  \/ handleConfirmBooking

SpecDialog == InitFare /\ [][NextDialog]_vars

\* ------------------------------------------ useOfflineStorage, steps
\* the effect on [isOnline, pendingSync]: syncPendingItems up to its await
syncPendingItems(o) ==
  IF o.isOnline /\ Len(o.pendingSync) > 0
    THEN [o EXCEPT !.calls = Append(@, o.pendingSync)]
    ELSE o

\* [...pendingSync, entry], setPendingSync and the effect it triggers
Enqueue(o, id, action) ==
  syncPendingItems([o EXCEPT
    !.pendingSync = Append(@, Entry(o.queued + 1, id, action)),
    !.queued = @ + 1])

handleOnline ==
  /\ ~offline.isOnline
  /\ Len(offline.calls) < MaxCalls
  /\ offline' = syncPendingItems([offline EXCEPT !.isOnline = TRUE])
  /\ UNCHANGED <<serverVars, dialog, wizard>>

handleOffline ==
  /\ offline.isOnline
  /\ offline' = [offline EXCEPT !.isOnline = FALSE]
  /\ UNCHANGED <<serverVars, dialog, wizard>>

saveItem ==
  /\ offline.queued < MaxQueued
  /\ \E id \in ItemIds \ offline.items, needsSync \in BOOLEAN :
       LET saved == [offline EXCEPT !.items = @ \cup {id}]
       IN  offline' = IF ~offline.isOnline /\ needsSync
                        THEN Enqueue(saved, id, "save")
                        ELSE saved
  /\ UNCHANGED <<serverVars, dialog, wizard>>

updateItem ==
  /\ offline.queued < MaxQueued
  /\ \E id \in ItemIds :
       offline' = IF id \notin offline.items THEN offline
                  ELSE IF ~offline.isOnline
                    THEN Enqueue(offline, id, "update")
                    ELSE offline
  /\ UNCHANGED <<serverVars, dialog, wizard>>

removeItem ==
  /\ offline.queued < MaxQueued
  /\ \E id \in ItemIds :
       LET removed == [offline EXCEPT !.items = @ \ {id}]
       IN  offline' = IF ~offline.isOnline /\ id \in offline.items
                        THEN Enqueue(removed, id, "delete")
                        ELSE removed
  /\ UNCHANGED <<serverVars, dialog, wizard>>

\* the other calls in flight
Without(calls, c) ==
  SubSeq(calls, 1, c - 1) \o SubSeq(calls, c + 1, Len(calls))

\* await syncFunction(pendingSync) resolves: setPendingSync([])
syncResolved ==
  /\ \E c \in DOMAIN offline.calls :
       offline' = syncPendingItems([offline EXCEPT
         !.pendingSync = <<>>,
         !.synced = @ \cup {e.n : e \in Range(offline.calls[c])},
         !.calls = Without(@, c)])
  /\ UNCHANGED <<serverVars, dialog, wizard>>

\* await syncFunction(pendingSync) rejects: the catch block logs
syncRejected ==
  /\ \E c \in DOMAIN offline.calls :
       offline' = [offline EXCEPT !.calls = Without(@, c)]
  /\ UNCHANGED <<serverVars, dialog, wizard>>

NextOffline ==
  \/ handleOnline
  \/ handleOffline
  \/ saveItem
  \/ updateItem
  \/ removeItem
  \/ syncResolved
  \/ syncRejected

SpecOffline == InitFare /\ [][NextOffline]_vars

\* --------------------------------------- TransportBookingModal, steps
\* the parent opens the dialog: the effect on [open, selectedTransport]
openDialog ==
  /\ ~wizard.open
  /\ wizard' = ResetForm([wizard EXCEPT !.open = TRUE])
  /\ UNCHANGED <<serverVars, dialog, offline>>

\* onOpenChange(false): dismissed, or closed by the mutation's onSuccess
closeDialog ==
  /\ wizard.open
  /\ wizard' = [wizard EXCEPT !.open = FALSE]
  /\ UNCHANGED <<serverVars, dialog, offline>>

\* a destination is picked from the list of step 1
setDropoffLocation ==
  /\ wizard.open
  /\ wizard.bookingStep = 1
  /\ \E location \in Destinations :
       wizard' = [wizard EXCEPT !.dropoffLocation = location]
  /\ UNCHANGED <<serverVars, dialog, offline>>

\* the Now and Schedule buttons of step 2
setIsNow ==
  /\ wizard.open
  /\ wizard.bookingStep = 2
  /\ \E now \in BOOLEAN : wizard' = [wizard EXCEPT !.isNow = now]
  /\ UNCHANGED <<serverVars, dialog, offline>>

\* the time input of step 2, rendered when the ride is scheduled
setScheduleTime ==
  /\ wizard.open
  /\ wizard.bookingStep = 2
  /\ ~wizard.isNow
  /\ \E value \in ScheduleTimes : wizard' = [wizard EXCEPT !.scheduleTime = value]
  /\ UNCHANGED <<serverVars, dialog, offline>>

\* Math.min(prev + 1, 3)
StepAfter(step) == IF step + 1 < 3 THEN step + 1 ELSE 3

\* Math.max(prev - 1, 1)
StepBefore(step) == IF step - 1 > 1 THEN step - 1 ELSE 1

\* handleNextStep without its two checks
handleNextStep_Unchecked ==
  /\ wizard.open
  /\ wizard.bookingStep \in {1, 2}
  /\ wizard' = [wizard EXCEPT !.bookingStep = StepAfter(@)]
  /\ UNCHANGED <<serverVars, dialog, offline>>

\* the Continue buttons of steps 1 and 2
handleNextStep ==
  /\ wizard.open
  /\ wizard.bookingStep \in {1, 2}
  /\ wizard' =
       IF wizard.bookingStep = 1 /\ wizard.dropoffLocation = NoDestination
         THEN wizard
       ELSE IF wizard.bookingStep = 2 /\ ~wizard.isNow /\ wizard.scheduleTime = ""
         THEN wizard
       ELSE [wizard EXCEPT !.bookingStep = StepAfter(@)]
  /\ UNCHANGED <<serverVars, dialog, offline>>

\* the Back buttons of steps 2 and 3
handlePrevStep ==
  /\ wizard.open
  /\ wizard.bookingStep \in {2, 3}
  /\ wizard' = [wizard EXCEPT !.bookingStep = StepBefore(@)]
  /\ UNCHANGED <<serverVars, dialog, offline>>

\* the Book button of step 3, a transport being selected; a scheduled time
\* may lie in the past
handleBookRide ==
  /\ wizard.open
  /\ wizard.bookingStep = 3
  /\ \E inPast \in BOOLEAN :
       wizard' =
         IF wizard.dropoffLocation = NoDestination THEN wizard
         ELSE IF ~wizard.isNow /\ wizard.scheduleTime = "" THEN wizard
         ELSE IF ~wizard.isNow /\ inPast THEN wizard
         ELSE [wizard EXCEPT !.sent =
                 <<[dropoffLocation |-> wizard.dropoffLocation,
                    isNow |-> wizard.isNow,
                    scheduleTime |-> wizard.scheduleTime]>>]
  /\ UNCHANGED <<serverVars, dialog, offline>>

NextWizard ==
  \/ openDialog
  \/ closeDialog
  \/ setDropoffLocation
  \/ setIsNow
  \/ setScheduleTime
  \/ handleNextStep
  \/ handlePrevStep
  \/ handleBookRide

SpecWizard == InitFare /\ [][NextWizard]_vars

\* ------------------------------------------------ vocabulary of the claims
\* Active booking: status pending or confirmed
IsActive(bk) == bk.status \in {"pending", "confirmed"}

\* half-open overlap of [s1, e1) and [s2, e2)
HalfOpenOverlap(s1, e1, s2, e2) == s1 < e2 /\ s2 < e1

SpotsOf(locationId) == {s \in SpotIds : spots[s].locationId = locationId}

\* the request windows with startTime < endTime
ValidIntervals == {i \in Intervals : i[1] < i[2]}

\* request r took the step
Stepped(r) == req'[r] # req[r]

StoreUnchanged == UNCHANGED <<spots, bookings, nextBookingId>>

\* --------------------------------------------------------------- claim C1
\* C1 (no double booking): in every state reached by a sequence of create,
\* cancel and modify requests, no two distinct active bookings of the same
\* spot have overlapping windows.
C1_NoDoubleBooking ==
  \A i, j \in DOMAIN bookings :
    (i # j /\ bookings[i].spotId = bookings[j].spotId
       /\ IsActive(bookings[i]) /\ IsActive(bookings[j]))
      => ~HalfOpenOverlap(bookings[i].startTime, bookings[i].endTime,
                          bookings[j].startTime, bookings[j].endTime)

\* --------------------------------------------------------------- claim C2
\* C2 (race at a single-spot location): of the create requests for one
\* location that holds a single spot and for overlapping windows, at most one
\* gets past the availability check and has its booking stored; the booking
\* rows as createParkingBooking wrote them show it.
C2_SingleSpotOneWinner ==
  \A i, j \in DOMAIN bookings :
    (i < j /\ bookings[i].locationId = bookings[j].locationId
       /\ Cardinality(SpotsOf(bookings[i].locationId)) = 1
       /\ bookings[i].status = "confirmed" /\ bookings[j].status = "confirmed"
       /\ bookings[i].spotId = bookings[j].spotId)
      => ~HalfOpenOverlap(bookings[i].startTime, bookings[i].endTime,
                          bookings[j].startTime, bookings[j].endTime)

\* --------------------------------------------------------------- claim C3
\* C3 (availability correctness): for every location and window the resolver
\* of either backing store returns exactly the location's spots that no active booking conflicts
\* with, whatever the spots' isAvailable flags are.  The conflict test is the
\* resolver's own closed comparison, so the flag is all the claim turns on.
C3_AvailabilityCorrect ==
  \A b \in Backends, l \in RequestLocationIds, i \in ValidIntervals :
    getAvailableParkingSpots(b, l, i[1], i[2])
      = {s \in SpotsOf(l) :
           ~\E bk \in StoredBookings :
              bk.spotId = s /\ IsActive(bk) /\ Overlaps(bk, i[1], i[2])}

\* --------------------------------------------------------------- claim C4
\* C4 (boundary policy): a spot of the location is left out of the resolver's
\* result exactly when some active booking bk of that spot has
\* bk.startTime <= end and bk.endTime >= start, in either backing store.
C4_BoundaryPolicy ==
  \A b \in Backends, l \in RequestLocationIds, i \in ValidIntervals :
    \A s \in SpotsOf(l) :
      (s \notin getAvailableParkingSpots(b, l, i[1], i[2]))
        <=> (\E bk \in StoredBookings :
               /\ bk.spotId = s
               /\ IsActive(bk)
               /\ bk.startTime <= i[2]
               /\ bk.endTime >= i[1])

\* --------------------------------------------------------------- claim C5
\* C5 (only active bookings count): in either backing store the resolver's
\* result is the one it gives when every booking that is not pending or
\* confirmed is taken out of the booking table.
C5_OnlyActiveCount ==
  \A b \in Backends, l \in RequestLocationIds, i \in ValidIntervals :
    AvailableOn(b, spots, StoredBookings, l, i[1], i[2])
      = AvailableOn(b, spots, {bk \in StoredBookings : IsActive(bk)},
                    l, i[1], i[2])

\* --------------------------------------------------------------- claim C6
\* C6 (all-or-nothing creation): a create request that ends in anything but
\* 201 Created has stored no booking.
C6_AllOrNothing ==
  [][\A r \in Reqs :
       (req[r].kind = "create" /\ req'[r].pc = "idle" /\ Stepped(r)
          /\ response'.outcome # "Created")
         => (req[r].newId = 0 /\ bookings' = bookings)]_vars

\* --------------------------------------------------------------- claim C7
\* the handler is at the point where the resolver hands back its result and
\* the resolver did not throw
ResolverReturns(r) ==
  /\ req[r].kind = "create"
  /\ req[r].pc = "getBookings"
  /\ Stepped(r)
  /\ response'.threw # "getAvailableParkingSpots"

\* C7 (no availability): whenever the resolver returns no spot the create
\* request ends with NoAvailability, and no booking is stored and no spot's
\* flag is changed.
C7_NoAvailability ==
  [][\A r \in Reqs :
       (ResolverReturns(r) /\ Len(Resolved(r)) = 0)
         => /\ response'.outcome = "NoAvailability"
            /\ req'[r] = IdleReq
            /\ req[r].newId = 0
            /\ StoreUnchanged]_vars

\* a request for the provisioned location was turned away because its only
\* spot carries an active booking that overlaps the requested window
C7_Witness ==
  /\ response.outcome = "NoAvailability"
  /\ response.request.locationId \in LocationIds
  /\ SpotsOf(response.request.locationId) # {}
  /\ \A s \in SpotsOf(response.request.locationId) :
       \E bk \in StoredBookings :
         /\ bk.spotId = s
         /\ IsActive(bk)
         /\ Overlaps(bk, response.request.startTime, response.request.endTime)

\* --------------------------------------------------------------- claim C8
\* C8 as stated: a create request whose location identifier resolves to no
\* stored location ends with LocationNotFound.
C8_AlwaysLocationNotFound ==
  [][\A r \in Reqs :
       (ResolverReturns(r) /\ req[r].locationId \notin LocationIds
          /\ response'.threw = "none")
         => response'.outcome = "LocationNotFound"]_vars

\* C8 (location not found): a create request whose location identifier
\* resolves to no stored location stores nothing and changes no flag; unless
\* a store call throws it ends with NoAvailability when the resolver returned
\* no spot for that identifier and with LocationNotFound when it returned one.
C8_LocationNotFound ==
  [][\A r \in Reqs :
       (ResolverReturns(r) /\ req[r].locationId \notin LocationIds)
         => /\ req'[r] = IdleReq
            /\ req[r].newId = 0
            /\ StoreUnchanged
            /\ response'.threw \in {"none", "getParkingLocationById"}
            /\ response'.threw = "none"
                 => response'.outcome = IF Len(Resolved(r)) = 0
                                          THEN "NoAvailability"
                                          ELSE "LocationNotFound"]_vars

\* a request was answered LocationNotFound: a spot row carries a location
\* identifier that resolves to no location, and the resolver returned it
C8_Witness ==
  /\ response.outcome = "LocationNotFound"
  /\ response.request.locationId \notin LocationIds
  /\ \E s \in SpotIds : spots[s].locationId = response.request.locationId

\* --------------------------------------------------------------- claim C9
\* C9 (interval validation): a create request whose endTime is not after its
\* startTime is rejected before the resolver is consulted, so no request
\* that has reached the resolver carries such a window.
C9_IntervalValidated ==
  \A r \in Reqs :
    (req[r].kind = "create" /\ req[r].pc \in {"getBookings", "insert", "flip"})
      => req[r].startTime < req[r].endTime

\* -------------------------------------------------------------- claim C10
\* C10 (first spot selected): of several available spots a create request
\* books the one with the smallest identifier.
C10_SmallestSpotBooked ==
  \A r \in Reqs :
    (req[r].kind = "create" /\ req[r].pc = "insert")
      => \A s \in Range(req[r].availableSpots) : req[r].availableSpots[1] <= s

\* -------------------------------------------------------------- claim C11
\* the booking a create request asks for, as the claim describes it
RequestedBooking(r, bk) ==
  /\ bk.userId = req[r].user
  /\ bk.spotId = req[r].availableSpots[1]
  /\ bk.locationId = req[r].locationId
  /\ bk.startTime = req[r].startTime
  /\ bk.endTime = req[r].endTime
  /\ bk.status = "confirmed"

\* C11 (postcondition of a successful create), requests served one at a
\* time: the call adds exactly one booking, which belongs to the requesting
\* user, references the chosen spot and the requested location and window and
\* is confirmed; when it answers 201 the chosen spot's flag is false; every
\* other booking and spot is as it was before the call.
C11_CreatePostcondition ==
  [][\A r \in Reqs :
       (req[r].kind = "create" /\ Stepped(r))
         => /\ req[r].pc \in {"getSpots", "getBookings"} => StoreUnchanged
            /\ (req[r].pc = "insert" /\ req'[r].pc = "flip")
                 => /\ Len(bookings') = Len(bookings) + 1
                    /\ SubSeq(bookings', 1, Len(bookings)) = bookings
                    /\ RequestedBooking(r, bookings'[Len(bookings')])
                    /\ req'[r].newId = Len(bookings')
                    /\ spots' = spots
            /\ response'.outcome = "Created"
                 => /\ req[r].pc = "flip"
                    /\ bookings' = bookings
                    /\ req[r].newId = Len(bookings)
                    /\ RequestedBooking(r, bookings[req[r].newId])
                    /\ spots'[req[r].availableSpots[1]].isAvailable = FALSE
                    /\ \A s \in SpotIds \ {req[r].availableSpots[1]} :
                         spots'[s] = spots[s]
                    /\ spots'[req[r].availableSpots[1]].locationId
                         = spots[req[r].availableSpots[1]].locationId]_vars

\* a second booking was created (201) while the first one is stored and
\* another spot exists
C11_Witness ==
  /\ response.outcome = "Created"
  /\ response.request.newId = 2
  /\ Len(bookings) = 2
  /\ \E s \in SpotIds : s # response.request.availableSpots[1]

\* -------------------------------------------------------------- claim C12
\* request r of the given kind gets the result of getParkingBookingById
LookupReturns(r, kind) ==
  /\ req[r].kind = kind
  /\ req[r].pc = "getBooking"
  /\ Stepped(r)
  /\ response'.threw # "getParkingBookingById"

\* C12 (cancel errors): a cancel request for an identifier no booking has
\* ends with NotFound, one for a booking of another user ends with Forbidden,
\* and neither changes a booking or a spot flag.
C12_CancelErrors ==
  [][\A r \in Reqs :
       LookupReturns(r, "cancel")
         => /\ req[r].bookingId \notin DOMAIN bookings
                 => /\ response'.outcome = "NotFound"
                    /\ req'[r] = IdleReq
                    /\ StoreUnchanged
            /\ (req[r].bookingId \in DOMAIN bookings
                  /\ bookings[req[r].bookingId].userId # req[r].user)
                 => /\ response'.outcome = "Forbidden"
                    /\ req'[r] = IdleReq
                    /\ StoreUnchanged]_vars

\* a cancel request for an active booking of another user was refused
C12_Witness ==
  /\ response.outcome = "Forbidden"
  /\ response.request.kind = "cancel"
  /\ response.request.bookingId \in DOMAIN bookings
  /\ bookings[response.request.bookingId].userId # response.request.user
  /\ IsActive(bookings[response.request.bookingId])

\* -------------------------------------------------------------- claim C13
\* C13 (unconditional release): a cancel request of the owner that ends with
\* 204 has set the booking's status to canceled and sets the flag of the spot
\* the fetched booking referenced to true, whatever other bookings reference
\* that spot; it changes no other booking and no other spot.
C13_CancelReleases ==
  [][\A r \in Reqs :
       (req[r].kind = "cancel" /\ Stepped(r))
         => /\ req[r].pc = "getBooking" => StoreUnchanged
            /\ (req[r].pc = "setStatus" /\ req'[r].pc = "release")
                 => /\ bookings'[req[r].bookingId].status = "canceled"
                    /\ \A b \in DOMAIN bookings :
                         b # req[r].bookingId => bookings'[b] = bookings[b]
                    /\ DOMAIN bookings' = DOMAIN bookings
                    /\ spots' = spots
            /\ response'.outcome = "NoContent"
                 => /\ req[r].pc = "release"
                    /\ spots'[req[r].spotId].isAvailable = TRUE
                    /\ \A s \in SpotIds \ {req[r].spotId} : spots'[s] = spots[s]
                    /\ bookings' = bookings]_vars

\* a cancel ended with 204 while another active booking references the spot
\* it released
C13_Witness ==
  /\ response.outcome = "NoContent"
  /\ bookings[response.request.bookingId].status = "canceled"
  /\ spots[response.request.spotId].isAvailable = TRUE
  /\ \E b \in DOMAIN bookings :
       /\ b # response.request.bookingId
       /\ bookings[b].spotId = response.request.spotId
       /\ IsActive(bookings[b])

\* -------------------------------------------------------------- claim C14
\* C14 (re-cancellation): a cancel request for a booking that was already
\* canceled when the handler fetched it turns no spot's flag from false to
\* true.
C14_NoSecondRelease ==
  [][\A r \in Reqs :
       (req[r].kind = "cancel" /\ Stepped(r) /\ req[r].status = "canceled")
         => \A s \in SpotIds :
              spots'[s].isAvailable = TRUE => spots[s].isAvailable = TRUE]_vars

\* a booking that was already canceled was cancelled again with 204, and the
\* spot it released carries another active booking
C14_Witness ==
  /\ response.outcome = "NoContent"
  /\ response.request.status = "canceled"
  /\ spots[response.request.spotId].isAvailable = TRUE
  /\ \E b \in DOMAIN bookings :
       /\ b # response.request.bookingId
       /\ bookings[b].spotId = response.request.spotId
       /\ IsActive(bookings[b])

\* -------------------------------------------------------------- claim C15
\* no active booking references spot s
NoActiveBookingOn(s) ==
  ~\E bk \in StoredBookings : bk.spotId = s /\ IsActive(bk)

\* the state a cancel with 204 has just left: the cancelled booking's spot is
\* the only spot of its location and carries no active booking
JustCancelledOnOnlySpot ==
  /\ response.outcome = "NoContent"
  /\ response.request.bookingId \in DOMAIN bookings
  /\ bookings[response.request.bookingId].spotId = response.request.spotId
  /\ SpotsOf(bookings[response.request.bookingId].locationId)
       = {response.request.spotId}
  /\ NoActiveBookingOn(response.request.spotId)

\* then the spot is available again for every window that overlaps the
\* cancelled one
AvailableAgain ==
  JustCancelledOnOnlySpot
    => LET bk == bookings[response.request.bookingId]
       IN  /\ bk.status = "canceled"
           /\ spots[bk.spotId].isAvailable = TRUE
           /\ \A i \in ValidIntervals :
                HalfOpenOverlap(bk.startTime, bk.endTime, i[1], i[2])
                  => getAvailableParkingSpots(storage, bk.locationId, i[1], i[2])
                       = {bk.spotId}

\* create request r asks for a window that overlaps a canceled booking on
\* the only spot s of its location, released and carrying no active booking
AsksForReleasedSpot(r, s) ==
  /\ ResolverReturns(r)
  /\ req[r].locationId \in LocationIds
  /\ SpotsOf(req[r].locationId) = {s}
  /\ spots[s].isAvailable = TRUE
  /\ NoActiveBookingOn(s)
  /\ \E bk \in StoredBookings :
       /\ bk.spotId = s
       /\ bk.status = "canceled"
       /\ HalfOpenOverlap(bk.startTime, bk.endTime,
                          req[r].startTime, req[r].endTime)

\* C15 (release on cancellation), requests served one at a time: after a
\* booking on a location's only spot is created and cancelled by its owner
\* the spot is available again, and a following create request at that
\* location for an overlapping window is given that spot: it is refused
\* neither with NoAvailability nor with LocationNotFound.
C15_ReleaseOnCancel ==
  [][/\ AvailableAgain'
     /\ \A r \in Reqs, s \in SpotIds :
          AsksForReleasedSpot(r, s)
            => /\ response'.outcome \in {"none", "InvalidData", "ServerError"}
               /\ response'.outcome = "none"
                    => /\ req'[r].pc = "insert"
                       /\ req'[r].availableSpots = <<s>>]_vars

\* the second booking of a single-spot location was created (201) on the spot
\* and for the window of a booking cancelled before
C15_Witness ==
  /\ response.outcome = "Created"
  /\ response.request.newId = 2
  /\ Cardinality(SpotsOf(response.request.locationId)) = 1
  /\ bookings[1].status = "canceled"
  /\ bookings[1].spotId = bookings[2].spotId
  /\ bookings[2].status = "confirmed"
  /\ bookings[1].userId = bookings[2].userId
  /\ HalfOpenOverlap(bookings[1].startTime, bookings[1].endTime,
                     bookings[2].startTime, bookings[2].endTime)

\* -------------------------------------------------------------- claim C16
\* C16 (scenario 3): at a location with exactly two spots A and B, where A
\* carries a confirmed booking for a window I and no booking references B,
\* the resolver returns exactly {B} for every window contained in I.
C16_OtherSpotOnly ==
  \A a, b \in SpotIds, bk \in StoredBookings :
    (/\ a # b
     /\ SpotsOf(bk.locationId) = {a, b}
     /\ bk.spotId = a
     /\ bk.status = "confirmed"
     /\ ~\E x \in StoredBookings : x.spotId = b)
      => \A i \in ValidIntervals :
           (bk.startTime <= i[1] /\ i[2] <= bk.endTime)
             => getAvailableParkingSpots(storage, bk.locationId, i[1], i[2]) = {b}

\* -------------------------------------------------------------- claim C17
\* C17 (modify errors): a modify request for an identifier no booking has
\* ends with NotFound, one by a user other than the booking's ends with
\* Forbidden, and in both cases no booking (and no spot) is changed.
C17_ModifyErrors ==
  [][\A r \in Reqs :
       LookupReturns(r, "modify")
         => /\ req[r].bookingId \notin DOMAIN bookings
                 => /\ response'.outcome = "NotFound"
                    /\ req'[r] = IdleReq
                    /\ StoreUnchanged
            /\ (req[r].bookingId \in DOMAIN bookings
                  /\ bookings[req[r].bookingId].userId # req[r].user)
                 => /\ response'.outcome = "Forbidden"
                    /\ req'[r] = IdleReq
                    /\ StoreUnchanged]_vars

\* a modify request for a stored booking of another user was refused
C17_Witness ==
  /\ response.outcome = "Forbidden"
  /\ response.request.kind = "modify"
  /\ response.request.bookingId \in DOMAIN bookings
  /\ bookings[response.request.bookingId].userId # response.request.user

\* -------------------------------------------------------------- claim C18
\* C18 (modify without re-check): a modify request of the owner is never
\* refused for a conflict: once the booking is fetched the handler merges the
\* supplied fields into it, whatever other bookings the new window, spot or
\* status runs into, and answers 200 (500 if the store call throws); no step
\* of it changes a spot flag or another booking.
C18_ModifyUnchecked ==
  [][\A r \in Reqs :
       (req[r].kind = "modify" /\ Stepped(r))
         => /\ spots' = spots
            /\ req[r].pc = "getBooking" => bookings' = bookings
            /\ req[r].pc = "update"
                 => /\ req'[r] = IdleReq
                    /\ \/ /\ response'.outcome = "OK"
                          /\ \E body \in PatchBodies :
                               bookings' =
                                 [bookings EXCEPT ![req[r].bookingId] =
                                    Merge(bookings[req[r].bookingId], body)]
                       \/ /\ response'.threw = "updateParkingBooking"
                          /\ bookings' = bookings]_vars

\* a modify that set a booking's window to [1, 2) was answered 200 although
\* another active booking holds the same spot for an overlapping window
C18_Witness ==
  /\ response.outcome = "OK"
  /\ response.request.kind = "modify"
  /\ LET bk == bookings[response.request.bookingId]
     IN  /\ IsActive(bk)
         /\ bk.startTime = 1 /\ bk.endTime = 2
         /\ spots[bk.spotId].isAvailable = FALSE
         /\ \E b \in DOMAIN bookings :
              /\ b # response.request.bookingId
              /\ bookings[b].spotId = bk.spotId
              /\ IsActive(bookings[b])
              /\ HalfOpenOverlap(bk.startTime, bk.endTime,
                                 bookings[b].startTime, bookings[b].endTime)

\* -------------------------------------------------------------- claim C19
\* the ceiling of a duration in hours, by its definition: the least whole
\* number of hours that covers the minutes
CeilingHours(minutes) ==
  CHOOSE h \in (0 - MaxMinutes \div MinutesPerHour - 1)
                ..(MaxMinutes \div MinutesPerHour + 1) :
    /\ h * MinutesPerHour >= minutes
    /\ (h - 1) * MinutesPerHour < minutes

C20_FareMonotone ==
  \A q1, q2 \in quotes :
    /\ (q1.rate = q2.rate /\ q1.minutes <= q2.minutes) => q1.total <= q2.total
    /\ (q1.minutes = q2.minutes /\ q1.rate <= q2.rate) => q1.total <= q2.total

\* -------------------------------------------------------------- claim C21
\* C21 (negative durations rejected): no stored booking carries a total that
\* was computed from an endTime before the startTime, so every stored
\* booking's totalAmount is at least the booking fee.
C21_FareAtLeastFee ==
  \A bk \in StoredBookings : bk.totalAmount >= BookingFee

\* -------------------------------------------------------------- claim C22
\* C22 (identifier generation): every create returns an identifier different
\* from and greater than every identifier a create returned before, and the
\* record it stored is the one found under exactly that identifier.
StrictlyIncreasing(ids) ==
  \A i, j \in DOMAIN ids : i < j => ids[i] < ids[j]

C22_FreshIncreasingIds ==
  /\ StrictlyIncreasing(assigned.mem)
  /\ StrictlyIncreasing(assigned.db)
  /\ (last.op = "createParkingBooking" /\ last.mem.error = "none") =>
       \A booking \in last.mem.rows :
         /\ booking.id = assigned.mem[Len(assigned.mem)]
         /\ MemStorage_getParkingBookingById(mem, booking.id).result.rows = {booking}
  /\ (last.op = "createParkingBooking" /\ last.db.error = "none") =>
       \A booking \in last.db.rows :
         /\ booking.id = assigned.db[Len(assigned.db)]
         /\ DatabaseStorage_getParkingBookingById(db, booking.id).result.rows = {booking}

\* a second create has returned, after an update of the first record
C22_Witness ==
  /\ last.op = "createParkingBooking"
  /\ last.mem.error = "none"
  /\ Len(assigned.mem) = 2
  /\ \E k \in DOMAIN mem.parkingBookings : mem.parkingBookings[k].id # k

\* -------------------------------------------------------------- claim C23
\* C23 (update keeps identity and references): after a successful
\* update(id, partialFields) the record found under id still carries the
\* identifier id and a spot reference, in either store.
C23_UpdateKeepsIdentity ==
  /\ (last.op = "updateParkingBooking" /\ last.mem.error = "none") =>
       \A booking \in MemStorage_getParkingBookingById(mem, last.args.id).result.rows :
         booking.id = last.args.id /\ booking.spotId # NullId
  /\ (last.op = "updateParkingBooking" /\ last.db.error = "none") =>
       \E booking \in DatabaseStorage_getParkingBookingById(db, last.args.id).result.rows :
         booking.id = last.args.id /\ booking.spotId # NullId

\* -------------------------------------------------------------- claim C24
\* C24 (update of an absent identifier): updateParkingBooking and
\* updateParkingSpotAvailability on an identifier the store does not hold
\* fail with not-found, in either store, and leave the store as it was.
C24_UpdateAbsentFails ==
  [][ /\ (/\ last'.op = "updateParkingBooking"
          /\ last' # last
          /\ MemStorage_getParkingBookingById(mem, last'.args.id).result.rows = {})
         => (last'.mem.error = "NotFound" /\ mem' = mem)
      /\ (/\ last'.op = "updateParkingBooking"
          /\ last' # last
          /\ DatabaseStorage_getParkingBookingById(db, last'.args.id).result.rows = {})
         => (last'.db.error = "NotFound" /\ db' = db)
      /\ (/\ last'.op = "updateParkingSpotAvailability"
          /\ last' # last
          /\ last'.args.id \notin DOMAIN mem.parkingSpots)
         => (last'.mem.error = "NotFound" /\ mem' = mem)
      /\ (/\ last'.op = "updateParkingSpotAvailability"
          /\ last' # last
          /\ \A spot \in db.parkingSpots : spot.id # last'.args.id)
         => (last'.db.error = "NotFound" /\ db' = db)
    ]_vars

\* an update of booking 2 was refused while only booking 1 is stored
C24_Witness ==
  /\ last.op = "updateParkingBooking"
  /\ last.args.id = 2
  /\ last.mem.error = "NotFound"
  /\ last.db.error = "NotFound"
  /\ DOMAIN mem.parkingBookings = {1}

\* -------------------------------------------------------------- claim C25
\* C25 (the two stores are interchangeable): the same call made on MemStorage
\* and on DatabaseStorage, after the same earlier calls, returns the same
\* rows or the same error.
C25_SameResults ==
  last.mem = last.db

\* -------------------------------------------------------------- claim C26
\* C26 (typed failures): a create request of a signed-in user that fails
\* ends in NoAvailability, LocationNotFound or InvalidInterval, and a cancel
\* request that fails ends in NotFound or Forbidden; no other failure exists.
C26_TypedFailures ==
  /\ (response.request.kind = "create"
        /\ response.outcome \notin {"none", "Created", "Unauthorized"})
       => response.outcome \in {"NoAvailability", "LocationNotFound",
                                 "InvalidInterval"}
  /\ (response.request.kind = "cancel"
        /\ response.outcome \notin {"none", "NoContent", "Unauthorized"})
       => response.outcome \in {"NotFound", "Forbidden"}

\* -------------------------------------------------------------- claim C27
\* C27 (interval validity): every stored booking ends strictly after it
\* starts, whatever creates, modifications and cancellations have run.
C27_EndAfterStart ==
  \A bk \in StoredBookings : bk.endTime > bk.startTime

\* -------------------------------------------------------------- claim C28
\* C28 (referential consistency): starting from the seeded demo data, every
\* stored booking's spotId names an existing spot, and that spot belongs to
\* the booking's location.
C28_BookingSpotAtLocation ==
  \A bk \in StoredBookings :
    /\ bk.spotId \in DOMAIN spots
    /\ spots[bk.spotId].locationId = bk.locationId

\* -------------------------------------------------------------- claim C29
\* C29 (no leaked spot): whenever no create or cancel request is in flight,
\* every spot flagged unavailable is referenced by an active booking.
C29_NoLeakedSpot ==
  (\A r \in Reqs : Free(r))
    => \A s \in SpotIds :
         spots[s].isAvailable = FALSE => ~NoActiveBookingOn(s)

\* the same, looked at only when the last response was a create's 201
C29_NoLeakAfterCreated ==
  response.outcome = "Created" => C29_NoLeakedSpot

\* -------------------------------------------------------------- claim C30
\* no spot flagged unavailable is in the result of either store's resolver,
\* for any location and any window
FlaggedSpotsNeverReturned ==
  \A s \in SpotIds :
    spots[s].isAvailable = FALSE
      => \A b \in Backends, l \in RequestLocationIds, i \in Intervals :
           s \notin getAvailableParkingSpots(b, l, i[1], i[2])

\* C30 (the flag alone blocks a spot): a spot flagged unavailable is never
\* returned by getAvailableParkingSpots, whatever the window; so, with one
\* request at a time, a create at a location whose only spot is flagged
\* unavailable ends with NoAvailability, and only the release step of a
\* cancel request sets a flag back to true.
C30_FlagAloneBlocks ==
  /\ []FlaggedSpotsNeverReturned
  /\ [][
     /\ \A r \in Reqs, s \in SpotIds :
          (/\ ResolverReturns(r)
           /\ SpotsOf(req[r].locationId) = {s}
           /\ spots[s].isAvailable = FALSE)
            => /\ response'.outcome = "NoAvailability"
               /\ req'[r] = IdleReq
               /\ StoreUnchanged
     /\ \A s \in SpotIds :
          (spots[s].isAvailable = FALSE /\ spots'[s].isAvailable = TRUE)
            => \E r \in Reqs : /\ req[r].kind = "cancel"
                               /\ req[r].pc = "release"
                               /\ req[r].spotId = s]_vars

\* a create was refused at a single-spot location whose spot is flagged
\* unavailable, for a window that touches none of the spot's active bookings
C30_Witness ==
  /\ response.outcome = "NoAvailability"
  /\ response.request.kind = "create"
  /\ \E s \in SpotIds :
       /\ SpotsOf(response.request.locationId) = {s}
       /\ spots[s].isAvailable = FALSE
       /\ \E bk \in StoredBookings : bk.spotId = s /\ IsActive(bk)
       /\ \A bk \in StoredBookings :
            (bk.spotId = s /\ IsActive(bk))
              => ~Overlaps(bk, response.request.startTime,
                           response.request.endTime)

\* -------------------------------------------------------------- claim C31
\* C31 (cancellation is final): a booking whose status is canceled is never
\* made pending or confirmed again by any later create, cancel or modify
\* request.
C31_CanceledStaysInactive ==
  [][\A i \in DOMAIN bookings :
       bookings[i].status = "canceled" => ~IsActive(bookings'[i])]_vars

\* -------------------------------------------------------------- claim C32
\* spot s is referenced by an active booking of a user other than u
BookedByAnother(s, u) ==
  \E bk \in StoredBookings : bk.spotId = s /\ bk.userId # u /\ IsActive(bk)

\* C32 (cross-user isolation): no step of a modify or cancel request of user
\* U changes a booking that belongs to another user, nor the availability
\* flag of a spot that an active booking of another user references.
C32_CrossUserIsolation ==
  [][\A r \in Reqs :
       (req[r].kind \in {"modify", "cancel"} /\ Stepped(r))
         => /\ \A i \in DOMAIN bookings :
                 bookings[i].userId # req[r].user => bookings'[i] = bookings[i]
            /\ \A s \in SpotIds :
                 BookedByAnother(s, req[r].user) => spots'[s] = spots[s]]_vars

\* -------------------------------------------------------------- claim C33
\* C33 (every booking mutation is authenticated): the bookings table changes
\* only in a step of a create, modify or cancel request whose session names
\* an existing user, a request without such a session changes nothing, and
\* the booking a create stores carries the session user as its userId.
C33_AuthenticatedMutation ==
  [][/\ bookings' # bookings
          => \E r \in Reqs : /\ Stepped(r)
                             /\ req[r].kind \in {"create", "modify", "cancel"}
                             /\ req[r].user \in Users
     /\ response'.outcome = "Unauthorized"
          => (StoreUnchanged /\ req' = req)
     /\ \A r \in Reqs :
          (req[r].pc = "insert" /\ req'[r].pc = "flip")
            => /\ req[r].user \in Users
               /\ bookings'[req'[r].newId].userId = req[r].user]_vars

\* user 2 was answered 201 while a booking of user 1 exists
C33_Witness ==
  /\ response.outcome = "Created"
  /\ response.request.user = 2
  /\ bookings[response.request.newId].userId = 2
  /\ \E bk \in StoredBookings : bk.userId = 1

\* -------------------------------------------------------------- claim C34
\* C34 (client and server agree on the price): for every start and end time
\* that can be selected in the parking booking dialog, the total the dialog
\* shows equals the totalAmount of the booking the server stores for it.
C34_SamePrice ==
  \A p \in Range(dialog.posted) : p.shown = p.totalAmount

\* -------------------------------------------------------------- claim C35
\* C35 (offline actions are never lost): every entry that saveItem,
\* updateItem or removeItem has put on the pending queue is still on the
\* queue unless it was given to a syncFunction call that resolved.
C35_NothingLost ==
  \A n \in 1..offline.queued :
    \/ \E e \in Range(offline.pendingSync) : e.n = n
    \/ n \in offline.synced

\* -------------------------------------------------------------- claim C36
\* the step is 1, 2 or 3; from step 2 on a destination is set; at step 3 the
\* ride is for now or has a time; and so has every request that was sent
WizardConsistent ==
  /\ wizard.bookingStep \in {1, 2, 3}
  /\ wizard.bookingStep >= 2 => wizard.dropoffLocation # NoDestination
  /\ wizard.bookingStep = 3 => (wizard.isNow \/ wizard.scheduleTime # "")
  /\ \A body \in Range(wizard.sent) :
       /\ body.dropoffLocation # NoDestination
       /\ body.isNow \/ body.scheduleTime # ""

\* C36 (ride-booking wizard): bookingStep is always 1, 2 or 3 and is 1 when
\* the dialog has just been opened; at step 2 or 3 the destination is not
\* empty, at step 3 the ride is for now or a schedule time is set; no
\* book-ride request carries an empty destination or a schedule without time.
C36_WizardInvariant ==
  /\ []WizardConsistent
  /\ [][(~wizard.open /\ wizard'.open) => wizard'.bookingStep = 1]_vars

\* a scheduled ride was sent from step 3 after the dialog had been used before
C36_Witness ==
  /\ wizard.bookingStep = 3
  /\ Len(wizard.sent) = 1
  /\ ~wizard.sent[1].isNow
  /\ wizard.sent[1].scheduleTime # ""
  /\ wizard.sent[1].dropoffLocation = "Conference Center"
====
